---- MODULE Spec2Model ----
(***************************************************************************)
(* Model of src/server/index.js: the job registry (`jobs`), the generate   *)
(* handler (POST /api/generate) and the status handler                     *)
(* (GET /api/status/:jobId), together with the inference provider the      *)
(* handlers call.  Each handler is cut at its single `await`: the part     *)
(* before the await is one atomic step, the continuation (or the catch     *)
(* block) is another, as in Node's run-to-completion scheduling.           *)
(***************************************************************************)
EXTENDS Integers, Sequences, FiniteSets, TLC

\* ------------------------------------------------------------------ bounds
\* Number of requests the server receives in a run.
MaxReq == 3
\* Largest value Date.now() takes in a run (the clock starts at 1).
MaxClock == 2

\* ------------------------------------------------------- JavaScript values
\* The value of a property that is absent, and the literal null.
Undefined == "<undefined>"
Null == "<null>"

\* JavaScript falsiness of the values the model uses (strings, or absent).
Falsy(x) == x \in {Undefined, Null, ""}

\* a || b
Or(a, b) == IF Falsy(a) THEN b ELSE a

\* The statuses a prediction does not leave.
Terminal(status) == status \in {"succeeded", "failed"}

\* ------------------------------------------------------------ input domains
ImageUrls == {Undefined, "", "http://host/uploads/1.png"}
VideoUrls == {Undefined, "", "http://host/uploads/1.mp4"}
\* The optional prompt is stored in the record as given and forwarded to the
\* provider (prompt || default); no branch of the handlers depends on it.
Prompts == {"dancing"}

\* The names of the files clients upload (the same name may be uploaded again
\* with other bytes), and what the files hold.
OriginalNames == {"hero.png", "dance.mp4"}
FileContents == {"bytes-A", "bytes-B"}

\* path.extname(file.originalname)
ExtName(name) == IF name = "dance.mp4" THEN ".mp4" ELSE ".png"

\* Date.now().toString(): the decimal digits of the clock value.
JobIdOf(t) == ToString(t)

\* The :jobId path parameters a client may send.
JobIdParams == {JobIdOf(t) : t \in 1..MaxClock} \cup {"nonexistent-id"}

\* The output reference the provider produces for prediction p.
OutputOf(p) == "https://provider/out/" \o ToString(p)

ProviderError == "prediction failed"
RequestError == "Request to provider failed"
NotFoundError == "Job not found"
RequiredError == "Character image and motion video are required"

VARIABLES
  now,      \* the value Date.now() returns
  jobs,     \* the Map `jobs`: job id -> reference to a job object
  heap,     \* the job objects, by reference (index)
  preds,    \* the provider's predictions, by prediction id (index)
  reqs,     \* the requests whose handler is suspended on its await
  served,   \* number of requests received so far
  last,     \* the request answered most recently, with its response
  reads,    \* number of provider reads (predictions.get) served so far
  mirror,   \* per job object: the latest-read provider state reconciled into it
  delivered, \* job ids for which a poll has answered succeeded with a videoUrl
  issued,   \* job ids answered by the generates that succeeded
  files,    \* the uploads/ directory: file name -> bytes
  urls      \* the uploads answered so far: <<file name, bytes uploaded>>

vars == <<now, jobs, heap, preds, reqs, served, last, reads, mirror, delivered,
          issued, files, urls>>

\* ------------------------------------------------------------------ helpers
\* Map.prototype.set
MapSet(m, k, v) == [x \in (DOMAIN m) \cup {k} |-> IF x = k THEN v ELSE m[x]]

\* Map.prototype.get: 0 stands for undefined (no object reference).
MapGet(m, k) == IF k \in DOMAIN m THEN m[k] ELSE 0

\* The sequence s without its element at index r.
Remove(s, r) == [i \in 1..(Len(s) - 1) |-> IF i < r THEN s[i] ELSE s[i + 1]]

NoPrediction == [status |-> Undefined, output |-> Undefined, error |-> Undefined]
NoBody == [characterImageUrl |-> Undefined, motionVideoUrl |-> Undefined, prompt |-> Undefined]
NoRecord == [status |-> Undefined, videoUrl |-> Undefined]
NoResponse ==
  [code |-> 0, jobId |-> Null, predictionId |-> 0, status |-> Null,
   videoUrl |-> Null, error |-> Null]

\* res.status(code).json({ error: message })
ErrorResponse(code, message) ==
  [code |-> code, jobId |-> Null, predictionId |-> 0, status |-> Null,
   videoUrl |-> Null, error |-> message]

\* What is remembered of the fetches reconciled into a job object: the read
\* number and status of the latest-read one, and the fetched state and answer
\* of the one reconciled last.
NoMirror ==
  [seq |-> 0, status |-> Undefined, applied |-> NoPrediction, answer |-> NoRecord]

Mirrored(m, req, resp) ==
  [seq |-> IF req.seq > m.seq THEN req.seq ELSE m.seq,
   status |-> IF req.seq > m.seq THEN req.prediction.status ELSE m.status,
   applied |-> req.prediction,
   answer |-> [status |-> resp.status, videoUrl |-> resp.videoUrl]]

\* A request that has just arrived, before its handler has run.
NewRequest(kind, body, jobId) ==
  [kind |-> kind, pc |-> "start", body |-> body, jobId |-> jobId,
   job |-> 0, predictionId |-> 0, prediction |-> NoPrediction,
   seq |-> 0, before |-> NoRecord, known |-> FALSE, seen |-> FALSE, again |-> FALSE,
   calls |-> 0, resp |-> NoResponse]

\* The request as it is once `resp` has been sent.
Answered(req, resp) == [req EXCEPT !.pc = "done", !.resp = resp]

Requests == 1..Len(reqs)

Init ==
  /\ now = 1
  /\ jobs = <<>>
  /\ heap = <<>>
  /\ preds = <<>>
  /\ reqs = <<>>
  /\ served = 0
  /\ last = NewRequest("none", NoBody, Null)
  /\ reads = 0
  /\ mirror = <<>>
  /\ delivered = {}
  /\ issued = {}
  /\ files = <<>>
  /\ urls = {}

\* Date.now() advances between (not within) handler steps.
Tick ==
  /\ now < MaxClock
  /\ now' = now + 1
  /\ UNCHANGED <<jobs, heap, preds, reqs, served, last, reads, mirror, delivered,
               issued, files, urls>>

\* ------------------------------------------- POST /api/upload/image, /video
\* multer's filename callback: Date.now() + path.extname(file.originalname)
FileName(t, originalname) == ToString(t) \o ExtName(originalname)

\* `${req.protocol}://${req.get('host')}/uploads/${req.file.filename}`
FileUrl(filename) == "http://host/uploads/" \o filename

\* res.json({ success: true, filename, path, url })
UploadBody(filename) ==
  [code |-> 200, filename |-> filename, path |-> "/uploads/" \o filename,
   url |-> FileUrl(filename), error |-> Null]

\* One upload request through upload.single(field) and its handler: multer
\* stores the file part (if any) under its generated name, the handler answers.
\* `content` is Undefined when the request carries no file.
Upload(field, originalname, content) ==
  /\ served < MaxReq
  /\ served' = served + 1
  /\ LET req == NewRequest(field, NoBody, Null)
         filename == FileName(now, originalname)
     IN  IF content = Undefined
           THEN /\ last' = Answered(req, ErrorResponse(400, "No " \o field \o " file uploaded"))
                /\ UNCHANGED <<files, urls>>
           ELSE /\ files' = MapSet(files, filename, content)
                /\ urls' = urls \cup {<<filename, content>>}
                /\ last' = Answered(req, UploadBody(filename))
  /\ UNCHANGED <<now, jobs, heap, preds, reqs, reads, mirror, delivered, issued>>

UploadImage(originalname, content) == Upload("image", originalname, content)

UploadVideo(originalname, content) == Upload("video", originalname, content)

\* --------------------------------------------------------- POST /api/generate
\* Mutant of MissingInput: only an absent field counts, an empty string passes.
MissingInputAbsentOnly(body) ==
  body.characterImageUrl = Undefined \/ body.motionVideoUrl = Undefined

\* if (!characterImageUrl || !motionVideoUrl)
MissingInput(body) == Falsy(body.characterImageUrl) \/ Falsy(body.motionVideoUrl)

\* Mutant of NewJob: the record starts in the data model's "pending" status.
NewJobPending(predictionId, body, createdAt) ==
  [predictionId |-> predictionId,
   status |-> "pending",
   characterImageUrl |-> body.characterImageUrl,
   motionVideoUrl |-> body.motionVideoUrl,
   prompt |-> body.prompt,
   createdAt |-> createdAt,
   videoUrl |-> Undefined]

\* The object literal handed to jobs.set: videoUrl is not a property of it.
NewJob(predictionId, body, createdAt) ==
  [predictionId |-> predictionId,
   status |-> "processing",
   characterImageUrl |-> body.characterImageUrl,
   motionVideoUrl |-> body.motionVideoUrl,
   prompt |-> body.prompt,
   createdAt |-> createdAt,
   videoUrl |-> Undefined]

\* res.json({ success: true, ..., jobId, predictionId: prediction.id, status: 'processing' })
GenerateBody(jobId, predictionId) ==
  [code |-> 200, jobId |-> jobId, predictionId |-> predictionId,
   status |-> "processing", videoUrl |-> Null, error |-> Null]

\* The handler up to its await: validation, the job id, the provider call.
GenerateRequest(characterImageUrl, motionVideoUrl, prompt) ==
  /\ served < MaxReq
  /\ served' = served + 1
  /\ LET body == [characterImageUrl |-> characterImageUrl,
                  motionVideoUrl |-> motionVideoUrl, prompt |-> prompt]
         req == NewRequest("generate", body, Null)
     IN  IF MissingInput(body)
           THEN /\ last' = Answered(req, ErrorResponse(400, RequiredError))
                /\ reqs' = reqs
           ELSE /\ reqs' = Append(reqs, [req EXCEPT !.pc = "submitting",
                                                    !.jobId = JobIdOf(now),
                                                    !.calls = 1])
                /\ last' = last
  /\ UNCHANGED <<now, jobs, heap, preds, reads, mirror, delivered, issued, files, urls>>

\* predictions.create resolved: the record is stored and the request answered.
\* `status` is the status the provider reports for the new prediction.
GenerateResume(r, status) ==
  /\ reqs[r].kind = "generate" /\ reqs[r].pc = "submitting"
  /\ LET id == Len(preds) + 1
         ref == Len(heap) + 1
         jobId == reqs[r].jobId
     IN  /\ preds' = Append(preds, [status |-> status, output |-> Undefined,
                                    error |-> Undefined])
         /\ heap' = Append(heap, NewJob(id, reqs[r].body, now))
         /\ mirror' = Append(mirror, NoMirror)
         /\ jobs' = MapSet(jobs, jobId, ref)
         /\ issued' = issued \cup {jobId}
         /\ last' = Answered([reqs[r] EXCEPT !.job = ref, !.predictionId = id,
                                             !.prediction = [NoPrediction EXCEPT !.status = status],
                                             !.known = jobId \in DOMAIN jobs],
                             GenerateBody(jobId, id))
  /\ reqs' = Remove(reqs, r)
  /\ UNCHANGED <<now, served, reads, delivered, files, urls>>

\* Mutant of GenerateFail: a rejected submission is retried once before the
\* error is answered.
GenerateFailRetries(r) ==
  /\ reqs[r].kind = "generate" /\ reqs[r].pc = "submitting"
  /\ IF reqs[r].calls < 2
       THEN /\ reqs' = [reqs EXCEPT ![r].calls = @ + 1]
            /\ last' = last
       ELSE /\ last' = Answered(reqs[r], ErrorResponse(500, RequestError))
            /\ reqs' = Remove(reqs, r)
  /\ UNCHANGED <<now, jobs, heap, preds, served, reads, mirror, delivered, issued, files, urls>>

\* Mutant of GenerateFail: the catch block leaves a record marked failed.
GenerateFailStoresRecord(r) ==
  /\ reqs[r].kind = "generate" /\ reqs[r].pc = "submitting"
  /\ heap' = Append(heap, [NewJob(0, reqs[r].body, now) EXCEPT !.status = "failed"])
  /\ mirror' = Append(mirror, NoMirror)
  /\ jobs' = MapSet(jobs, reqs[r].jobId, Len(heap) + 1)
  /\ last' = Answered(reqs[r], ErrorResponse(500, RequestError))
  /\ reqs' = Remove(reqs, r)
  /\ UNCHANGED <<now, preds, served, reads, delivered, issued, files, urls>>

\* predictions.create rejected: the catch block.
GenerateFail(r) ==
  /\ reqs[r].kind = "generate" /\ reqs[r].pc = "submitting"
  /\ last' = Answered(reqs[r], ErrorResponse(500, RequestError))
  /\ reqs' = Remove(reqs, r)
  /\ UNCHANGED <<now, jobs, heap, preds, served, reads, mirror, delivered, issued, files, urls>>

\* ---------------------------------------------------- GET /api/status/:jobId
\* job.status = prediction.status; if (prediction.output) job.videoUrl = prediction.output
Reconcile(job, prediction) ==
  [job EXCEPT !.status = prediction.status,
              !.videoUrl = IF Falsy(prediction.output) THEN @ ELSE prediction.output]

\* Mutant of StatusBody: the status answered is the one the record held when
\* the poll looked it up, before the update.
StatusBodyBefore(jobId, prediction) ==
  [code |-> 200, jobId |-> jobId, predictionId |-> 0,
   status |-> heap[jobs[jobId]].status,
   videoUrl |-> Or(prediction.output, Null),
   error |-> Or(prediction.error, Null)]

\* Mutant of StatusBody: the videoUrl answered is the one the record holds
\* after the update (job.videoUrl || null), not the one just fetched.
StatusBodyStored(jobId, prediction) ==
  [code |-> 200, jobId |-> jobId, predictionId |-> 0,
   status |-> prediction.status,
   videoUrl |-> Or(Reconcile(heap[jobs[jobId]], prediction).videoUrl, Null),
   error |-> Or(prediction.error, Null)]

\* res.json({ jobId, status, videoUrl: prediction.output || null, error: prediction.error || null })
StatusBody(jobId, prediction) ==
  [code |-> 200, jobId |-> jobId, predictionId |-> 0,
   status |-> prediction.status,
   videoUrl |-> Or(prediction.output, Null),
   error |-> Or(prediction.error, Null)]

\* The handler up to its await: the lookup, the 404, the provider call.
StatusRequest(jobId) ==
  /\ served < MaxReq
  /\ served' = served + 1
  /\ LET job == MapGet(jobs, jobId)
         req == NewRequest("poll", NoBody, jobId)
     IN  IF job = 0
           THEN /\ last' = Answered(req, ErrorResponse(404, NotFoundError))
                /\ reqs' = reqs
           ELSE /\ reqs' = Append(reqs, [req EXCEPT !.pc = "fetching",
                                                    !.job = job,
                                                    !.predictionId = heap[job].predictionId,
                                                    !.known = TRUE,
                                                    !.calls = 1])
                /\ last' = last
  /\ UNCHANGED <<now, jobs, heap, preds, reads, mirror, delivered, issued, files, urls>>

\* The provider serves predictions.get: a point-in-time read of the prediction,
\* which then travels back to the suspended handler.
ProviderGet(r) ==
  /\ reqs[r].kind = "poll" /\ reqs[r].pc = "fetching"
  /\ reads' = reads + 1
  /\ reqs' = [reqs EXCEPT ![r].pc = "fetched",
                          ![r].prediction = preds[reqs[r].predictionId],
                          ![r].seq = reads + 1]
  /\ UNCHANGED <<now, jobs, heap, preds, served, last, mirror, delivered, issued, files, urls>>

\* Mutant of StatusResume: the record is looked up again after the await, and
\* the fetched state is written into whatever object the job id now maps to.
StatusResumeRelookup(r) ==
  /\ reqs[r].kind = "poll" /\ reqs[r].pc = "fetched"
  /\ LET jobId == reqs[r].jobId
         job == jobs[jobId]
         prediction == reqs[r].prediction
         resp == StatusBody(jobId, prediction)
     IN  /\ heap' = [heap EXCEPT ![job] = Reconcile(@, prediction)]
         /\ jobs' = MapSet(jobs, jobId, job)
         /\ mirror' = [mirror EXCEPT ![job] = Mirrored(@, reqs[r], resp)]
         /\ delivered' = IF resp.status = "succeeded" /\ resp.videoUrl # Null
                           THEN delivered \cup {jobId} ELSE delivered
         /\ last' = Answered([reqs[r] EXCEPT !.before = [status |-> heap[job].status,
                                                         videoUrl |-> heap[job].videoUrl],
                                             !.seen = jobId \in delivered,
                                             !.again = mirror[job].applied = prediction],
                             resp)
  /\ reqs' = Remove(reqs, r)
  /\ UNCHANGED <<now, preds, served, reads, issued, files, urls>>

\* Mutant of StatusResume: a job that has reached a terminal status is removed
\* from the registry once it has been reported.
StatusResumeDropsFinished(r) ==
  /\ reqs[r].kind = "poll" /\ reqs[r].pc = "fetched"
  /\ LET job == reqs[r].job
         jobId == reqs[r].jobId
         prediction == reqs[r].prediction
         resp == StatusBody(jobId, prediction)
     IN  /\ heap' = [heap EXCEPT ![job] = Reconcile(@, prediction)]
         /\ jobs' = IF Terminal(prediction.status)
                      THEN [x \in (DOMAIN jobs) \ {jobId} |-> jobs[x]]
                      ELSE MapSet(jobs, jobId, job)
         /\ mirror' = [mirror EXCEPT ![job] = Mirrored(@, reqs[r], resp)]
         /\ delivered' = IF resp.status = "succeeded" /\ resp.videoUrl # Null
                           THEN delivered \cup {jobId} ELSE delivered
         /\ last' = Answered([reqs[r] EXCEPT !.before = [status |-> heap[job].status,
                                                         videoUrl |-> heap[job].videoUrl],
                                             !.seen = jobId \in delivered,
                                             !.again = mirror[job].applied = prediction],
                             resp)
  /\ reqs' = Remove(reqs, r)
  /\ UNCHANGED <<now, preds, served, reads, issued, files, urls>>

\* predictions.get resolved: reconcile into the held job object, write it back
\* under the job id, answer with the fetched state.
StatusResume(r) ==
  /\ reqs[r].kind = "poll" /\ reqs[r].pc = "fetched"
  /\ LET job == reqs[r].job
         jobId == reqs[r].jobId
         prediction == reqs[r].prediction
         resp == StatusBody(jobId, prediction)
     IN  /\ heap' = [heap EXCEPT ![job] = Reconcile(@, prediction)]
         /\ jobs' = MapSet(jobs, jobId, job)
         /\ mirror' = [mirror EXCEPT ![job] = Mirrored(@, reqs[r], resp)]
         /\ delivered' = IF resp.status = "succeeded" /\ resp.videoUrl # Null
                           THEN delivered \cup {jobId} ELSE delivered
         /\ last' = Answered([reqs[r] EXCEPT !.before = [status |-> heap[job].status,
                                                         videoUrl |-> heap[job].videoUrl],
                                             !.seen = jobId \in delivered,
                                             !.again = mirror[job].applied = prediction],
                             resp)
  /\ reqs' = Remove(reqs, r)
  /\ UNCHANGED <<now, preds, served, reads, issued, files, urls>>

\* Mutant of StatusFail: the catch block logs the error and sends no response.
StatusFailHangs(r) ==
  /\ reqs[r].kind = "poll" /\ reqs[r].pc = "fetching"
  /\ reqs' = [reqs EXCEPT ![r].pc = "failed"]
  /\ UNCHANGED <<now, jobs, heap, preds, served, last, reads, mirror, delivered, issued, files, urls>>

\* Mutant of StatusFail: a rejected provider call is answered as an unknown job.
StatusFailNotFound(r) ==
  /\ reqs[r].kind = "poll" /\ reqs[r].pc = "fetching"
  /\ last' = Answered(reqs[r], ErrorResponse(404, NotFoundError))
  /\ reqs' = Remove(reqs, r)
  /\ UNCHANGED <<now, jobs, heap, preds, served, reads, mirror, delivered, issued, files, urls>>

\* Mutant of StatusFail: the catch block marks the job failed.
StatusFailMarksFailed(r) ==
  /\ reqs[r].kind = "poll" /\ reqs[r].pc = "fetching"
  /\ heap' = [heap EXCEPT ![reqs[r].job].status = "failed"]
  /\ last' = Answered(reqs[r], ErrorResponse(500, RequestError))
  /\ reqs' = Remove(reqs, r)
  /\ UNCHANGED <<now, jobs, preds, served, reads, mirror, delivered, issued, files, urls>>

\* predictions.get rejected: the catch block.
StatusFail(r) ==
  /\ reqs[r].kind = "poll" /\ reqs[r].pc = "fetching"
  /\ last' = Answered(reqs[r], ErrorResponse(500, RequestError))
  /\ reqs' = Remove(reqs, r)
  /\ UNCHANGED <<now, jobs, heap, preds, served, reads, mirror, delivered, issued, files, urls>>

\* ------------------------------------------------------------- the provider
\* The statuses predictions.create may report for a new prediction.
InitialStatuses == {"starting", "processing"}

\* The prediction moves along starting -> processing -> succeeded | failed;
\* a terminal status is never left.
ProviderAdvance(p) ==
  /\ p \in 1..Len(preds)
  /\ \/ /\ preds[p].status = "starting"
        /\ preds' = [preds EXCEPT ![p].status = "processing"]
     \/ /\ preds[p].status = "processing"
        /\ preds' = [preds EXCEPT ![p].status = "succeeded",
                                  ![p].output = OutputOf(p)]
     \/ /\ preds[p].status = "processing"
        /\ preds' = [preds EXCEPT ![p].status = "failed",
                                  ![p].error = ProviderError]
  /\ UNCHANGED <<now, jobs, heap, reqs, served, last, reads, mirror, delivered,
               issued, files, urls>>

\* The provider removes the output of a finished prediction (data retention):
\* later reads report the status without an output.
ProviderExpire(p) ==
  /\ p \in 1..Len(preds)
  /\ preds[p].status = "succeeded" /\ ~Falsy(preds[p].output)
  /\ preds' = [preds EXCEPT ![p].output = Undefined]
  /\ UNCHANGED <<now, jobs, heap, reqs, served, last, reads, mirror, delivered,
               issued, files, urls>>

\* --------------------------------------------------------------------- Next
Next ==
  \/ Tick
  \/ \E n \in OriginalNames, c \in FileContents \cup {Undefined} : UploadImage(n, c)
  \/ \E n \in OriginalNames, c \in FileContents \cup {Undefined} : UploadVideo(n, c)
  \/ \E i \in ImageUrls, v \in VideoUrls, p \in Prompts : GenerateRequest(i, v, p)
  \/ \E r \in Requests, s \in InitialStatuses : GenerateResume(r, s)
  \/ \E r \in Requests : GenerateFail(r)
  \/ \E j \in JobIdParams : StatusRequest(j)
  \/ \E r \in Requests : ProviderGet(r)
  \/ \E r \in Requests : StatusResume(r)
  \/ \E r \in Requests : StatusFail(r)
  \/ \E p \in 1..Len(preds) : ProviderAdvance(p)
  \/ \E p \in 1..Len(preds) : ProviderExpire(p)

Spec == Init /\ [][Next]_vars

\* A provider call of a suspended handler returns or fails, or the handler's
\* continuation runs.
Resolve ==
  \E r \in Requests :
    \/ \E s \in InitialStatuses : GenerateResume(r, s)
    \/ GenerateFail(r)
    \/ ProviderGet(r)
    \/ StatusResume(r)
    \/ StatusFail(r)

\* The server under the assumption that every provider call eventually returns
\* or fails and that the event loop runs every continuation that is ready.
FairSpec == Spec /\ WF_vars(Resolve)
\* ------------------------------------------------------------ the properties
\* The registry's records, by job id.
Record(j) == heap[jobs[j]]

\* A suspended request is answered in this step; last' is that request.
Resumed == Len(reqs') < Len(reqs)

\* The request that arrives in this step, as its handler leaves it.
Arrived == IF Len(reqs') > Len(reqs) THEN reqs'[Len(reqs')] ELSE last'

PollAnswered == last.kind = "poll" /\ last.resp.code = 200

\* C1: job identifiers are unique: a generate that succeeds stores its record
\* under an identifier no earlier successful generate has used, so it never
\* overwrites a record of the registry.
C1_JobIdsUnique ==
  (last.kind = "generate" /\ last.resp.code = 200) => ~last.known

\* C2: for every job id, the predictionId of the record under it is assigned
\* once: it has the same value in every later state.
C2_PredictionIdAssignedOnce ==
  [][\A j \in DOMAIN jobs :
       j \in DOMAIN jobs' /\ Record(j)'.predictionId = Record(j).predictionId]_vars

\* C3: once a job record's status is succeeded or failed, the record keeps that
\* status in every later state, whatever polls follow and in whatever order
\* their provider responses are applied.
C3_TerminalStatusRetained ==
  [][\A o \in 1..Len(heap) :
       Terminal(heap[o].status) => heap'[o].status = heap[o].status]_vars

\* C4: for every job id, once its record holds a videoUrl, the record under
\* that id holds a videoUrl in every later state.
C4_VideoUrlNeverErased ==
  [][\A j \in DOMAIN jobs :
       ~Falsy(Record(j).videoUrl) =>
         j \in DOMAIN jobs' /\ ~Falsy(Record(j)'.videoUrl)]_vars

\* C5: once a poll of a job has answered succeeded with a non-null videoUrl,
\* every later successful poll answer for that job id carries a non-null
\* videoUrl.
C5_VideoUrlStaysReported ==
  (PollAnswered /\ last.seen) => last.resp.videoUrl # Null

\* C6: a poll that succeeds answers with the state its own fetch returned:
\* status is the fetched status, videoUrl the fetched output (null if absent),
\* error the fetched error (null if absent).
C6_ResponseIsFetchedState ==
  PollAnswered =>
    /\ last.resp.jobId = last.jobId
    /\ last.resp.status = last.prediction.status
    /\ last.resp.videoUrl =
         (IF last.prediction.output = Undefined THEN Null ELSE last.prediction.output)
    /\ last.resp.error =
         (IF last.prediction.error = Undefined THEN Null ELSE last.prediction.error)

\* C6 witness: a poll answered with the fetched state although the record held
\* another status and a videoUrl before the poll wrote to it.
C6_Witness ==
  /\ PollAnswered
  /\ last.before.status # last.resp.status
  /\ ~Falsy(last.before.videoUrl)
  /\ last.resp.videoUrl = Null

\* C7: every record's status is "processing" while no fetch for it has been
\* reconciled, and otherwise the status returned by the most recent provider
\* read among the fetches reconciled into it.
C7_RegistryMirrorsProvider ==
  \A j \in DOMAIN jobs :
    Record(j).status =
      (IF mirror[jobs[j]].seq = 0 THEN "processing" ELSE mirror[jobs[j]].status)

\* C8: a poll whose provider fetch fails (it is answered without a provider
\* read having reached it) answers 500 and leaves every record of the registry
\* as it was.
C8_FailedPollLeavesRegistry ==
  [][(Resumed /\ last'.kind = "poll" /\ last'.seq = 0) =>
       (last'.resp.code = 500 /\ jobs' = jobs /\ heap' = heap)]_vars

\* C8 witness: a poll has failed on a job whose record holds a terminal status
\* and a videoUrl.
C8_Witness ==
  /\ last.kind = "poll" /\ last.resp.code = 500
  /\ Terminal(heap[last.job].status)
  /\ ~Falsy(heap[last.job].videoUrl)

\* C9: a generate whose provider submission fails (it is answered without a
\* prediction) answers 500 and creates no record: the registry is as it was.
C9_FailedGenerateCreatesNothing ==
  [][(Resumed /\ last'.kind = "generate" /\ last'.predictionId = 0) =>
       (last'.resp.code = 500 /\ jobs' = jobs /\ heap' = heap)]_vars

\* C9 witness: a generate has failed while the registry holds a record and its
\* own job id is not in the registry.
C9_Witness ==
  /\ last.kind = "generate" /\ last.resp.code = 500
  /\ DOMAIN jobs # {}
  /\ last.jobId \notin DOMAIN jobs

\* C10: a generate request whose characterImageUrl or motionVideoUrl is missing
\* or empty answers 400 at once, makes no provider submission and leaves the
\* registry unchanged.
C10_MissingInputRejected ==
  [][(/\ served' = served + 1
      /\ Arrived.kind = "generate"
      /\ \/ Arrived.body.characterImageUrl \in {Undefined, ""}
         \/ Arrived.body.motionVideoUrl \in {Undefined, ""}) =>
       (/\ Arrived.pc = "done" /\ Arrived.resp.code = 400
        /\ Arrived.calls = 0
        /\ reqs' = reqs /\ preds' = preds
        /\ jobs' = jobs /\ heap' = heap)]_vars

\* C10 witness: a generate with an empty characterImageUrl and a present
\* motionVideoUrl has been rejected while the registry holds a record.
C10_Witness ==
  /\ last.kind = "generate" /\ last.resp.code = 400
  /\ last.body.characterImageUrl = ""
  /\ ~Falsy(last.body.motionVideoUrl)
  /\ DOMAIN jobs # {}
\* A poll arrives in this step.
PollArrives == served' = served + 1 /\ Arrived.kind = "poll"

\* A suspended poll is answered in this step.
PollResumed == Resumed /\ last'.kind = "poll"

\* C11: once a generate has succeeded and returned job id J, no later poll of J
\* answers 404, whether it is answered on arrival or after its provider call.
C11_IssuedJobAlwaysFound ==
  [][/\ (PollArrives /\ Arrived.jobId \in issued) => Arrived.resp.code # 404
     /\ (PollResumed /\ last'.jobId \in issued) => last'.resp.code # 404]_vars

\* C11 witness: a poll of an issued job id has been answered with the job's
\* state after an earlier poll of it had already reported the finished video.
C11_Witness ==
  /\ PollAnswered
  /\ last.jobId \in issued
  /\ last.seen

\* C12: a poll of a job id that is not in the registry answers 404 at once,
\* issues no provider fetch and leaves the registry unchanged; a poll of a job
\* id that is in the registry never answers 404: it answers 200, or 500 when
\* its provider fetch fails.
C12_NotFoundOnlyForUnknownJob ==
  [][/\ (PollArrives /\ Arrived.jobId \notin DOMAIN jobs) =>
          (/\ Arrived.pc = "done" /\ Arrived.resp.code = 404
           /\ Arrived.calls = 0
           /\ reqs' = reqs /\ reads' = reads
           /\ jobs' = jobs /\ heap' = heap)
     /\ (PollArrives /\ Arrived.jobId \in DOMAIN jobs) =>
          (Arrived.pc = "fetching" /\ Arrived.resp.code = 0)
     /\ PollResumed =>
          (last'.resp.code = IF last'.seq = 0 THEN 500 ELSE 200)]_vars

\* C12 witness: a poll of an unknown job id has been answered 404 while the
\* registry holds a record.
C12_Witness ==
  /\ last.kind = "poll" /\ last.resp.code = 404
  /\ last.jobId \notin DOMAIN jobs
  /\ DOMAIN jobs # {}
\* C13: poll is idempotent: a successful poll whose fetch returned the same
\* provider state as the poll of the same job reconciled just before it answers
\* the same status and videoUrl, and leaves the job's record as that poll left
\* it.
C13_PollIdempotent ==
  [][(PollResumed /\ last'.resp.code = 200
        /\ mirror[last'.job].applied = last'.prediction) =>
       (/\ last'.resp.status = mirror[last'.job].answer.status
        /\ last'.resp.videoUrl = mirror[last'.job].answer.videoUrl
        /\ heap'[last'.job] = heap[last'.job]
        /\ heap'[jobs'[last'.jobId]] = heap[last'.job])]_vars

\* C13 witness: a poll has been answered whose fetch returned the finished
\* prediction with its output, as the poll reconciled before it had.
C13_Witness ==
  /\ PollAnswered
  /\ last.again
  /\ last.resp.status = "succeeded"
  /\ last.resp.videoUrl # Null
\* C14: the URL every successful upload returned keeps addressing exactly the
\* bytes of that upload: no other upload stores its file under the same name.
C14_UploadUrlKeepsBytes ==
  \A u \in urls : u[1] \in DOMAIN files /\ files[u[1]] = u[2]
\* The fields of a record that are set at creation.
Inputs(job) ==
  <<job.predictionId, job.characterImageUrl, job.motionVideoUrl, job.prompt,
    job.createdAt>>

\* C15: a successful poll of job J changes at most the status and videoUrl of
\* the record under J: its predictionId, characterImageUrl, motionVideoUrl,
\* prompt and createdAt are unchanged, and so is the record under every other
\* job id.
C15_PollFrame ==
  [][(PollResumed /\ last'.resp.code = 200) =>
       (/\ DOMAIN jobs' = DOMAIN jobs
        /\ \A j \in DOMAIN jobs :
             IF j = last'.jobId
               THEN Inputs(Record(j)') = Inputs(Record(j))
               ELSE Record(j)' = Record(j))]_vars
\* C16: a successful generate answers status "processing", whatever status the
\* provider returned for the submission, and the record it creates has status
\* "processing" and no videoUrl until the first fetch is reconciled into it.
C16_ProcessingUntilFirstPoll ==
  /\ (last.kind = "generate" /\ last.resp.code = 200) =>
       last.resp.status = "processing"
  /\ \A o \in 1..Len(heap) :
       mirror[o].seq = 0 =>
         (heap[o].status = "processing" /\ heap[o].videoUrl = Undefined)

\* C16 witness: a generate for which the provider returned "starting" has been
\* answered; the prediction has since succeeded, a poll of the job has failed
\* or none was made, and the record still says "processing".
C16_Witness ==
  /\ last.kind = "generate" /\ last.resp.code = 200
  /\ last.prediction.status = "starting"
  /\ preds[last.predictionId].status = "succeeded"
  /\ mirror[last.job].seq = 0
  /\ heap[last.job].status = "processing"
\* C17: no retry: a generate that passes validation has issued exactly one
\* provider submission and a poll of a known job id exactly one provider
\* fetch, while it is suspended and when it is answered (200 or 500); a request
\* answered 400 or 404 has issued none.
C17_OneProviderCallPerRequest ==
  /\ \A r \in Requests : reqs[r].calls = 1
  /\ last.kind \in {"generate", "poll"} =>
       last.calls = (IF last.resp.code \in {200, 500} THEN 1 ELSE 0)
  /\ reads <= served /\ Len(preds) <= served

\* C17 witness: a poll whose fetch failed has been answered having issued one
\* provider call, while a generate is suspended on its one submission.
C17_Witness ==
  /\ last.kind = "poll" /\ last.resp.code = 500 /\ last.calls = 1
  /\ \E r \in Requests : reqs[r].kind = "generate" /\ reqs[r].calls = 1
\* The responses the handlers send.
WellFormed(resp) ==
  \/ resp.code = 200 /\ resp.error \in {Null, ProviderError}
  \/ resp.code \in {400, 404, 500} /\ resp.error \notin {Null, Undefined}

\* C18: every request is answered: whenever handlers are suspended on a provider
\* call, a state follows in which every one of them has been answered, whatever
\* failures occurred meanwhile; and every answer is a success body or an
\* {error} body with status 400, 404 or 500.
C18_EveryRequestAnswered ==
  /\ [](last.pc = "done" => WellFormed(last.resp))
  /\ [](Len(reqs) > 0 => <>(Len(reqs) = 0))

\* C18 witness: all requests have been answered, the last of them a successful
\* poll, after another request had been answered with an error.
C18_Witness ==
  /\ reqs = <<>> /\ served >= 3
  /\ PollAnswered
  /\ Len(heap) = 1 /\ reads = 1 /\ files = <<>>
\* The statuses the provider reports, or may have reported earlier, for a
\* prediction whose status is now `status`.
Held(status) ==
  IF status = "starting" THEN {"starting"}
  ELSE IF status = "processing" THEN {"starting", "processing"}
  ELSE {"starting", "processing", status}

\* C19: no cross-job contamination: every job object holds the initial values
\* or a status and videoUrl the provider reported for that object's own
\* predictionId, and every suspended poll fetches the prediction of the object
\* it looked up, also when the entry under its job id has been replaced
\* meanwhile.
C19_NoCrossJobContamination ==
  /\ \A o \in 1..Len(heap) :
       /\ heap[o].videoUrl \in {Undefined, OutputOf(heap[o].predictionId)}
       /\ heap[o].status \in {"processing"} \cup Held(preds[heap[o].predictionId].status)
  /\ \A r \in Requests :
       reqs[r].kind = "poll" =>
         /\ reqs[r].predictionId = heap[reqs[r].job].predictionId
         /\ reqs[r].pc = "fetched" =>
              reqs[r].prediction.output \in {Undefined, OutputOf(reqs[r].predictionId)}

\* C19 witness: two generates stored their records under the same job id, the
\* second while a poll of the first was suspended; the poll has written the
\* first object, with the output of its own prediction, back under the id.
C19_Witness ==
  /\ PollAnswered
  /\ Len(heap) = 2 /\ Cardinality(DOMAIN jobs) = 1
  /\ last.job = 1 /\ jobs[last.jobId] = 1
  /\ heap[1].videoUrl = OutputOf(1)
  /\ heap[2].videoUrl = Undefined
====
